---- MODULE Spec2Model ----
(***************************************************************************)
(* Model of simpler_timer (src/src/lib.rs): one Timer polled by one thread *)
(* against a monotonic clock.  Time is counted in integer clock ticks.     *)
(* Timer holds a Cell<Instant>, so it is not Sync: a single thread calls   *)
(* its methods, and the only thing that runs while that thread is inside   *)
(* wait() is the clock.  A clone is a second Timer value with a Cell of its *)
(* own; it may be handed to another thread and reset there.                *)
(***************************************************************************)
EXTENDS Integers, Naturals, Sequences, FiniteSets, TLC

\* Largest duration handed to with_duration.
MaxDuration == 2
\* Latest clock reading at which the timer is constructed.
MaxStart == 0
\* Ticks the clock may run beyond MaxStart + MaxDuration.
MaxSlack == 2

MaxTime == MaxStart + MaxDuration + MaxSlack

Durations == 0..MaxDuration

VARIABLES
    now,            \* the monotonic clock (what Instant::now() returns)
    timer,          \* the Timer: [instant, duration]
    pc,             \* "idle", or "sleeping" inside wait()'s thread::sleep
    ret,            \* the last call that returned: its name, the clock reading
                    \* at the call, and its bool or Duration result
    w,              \* history: the last wait() call: called at, time since
                    \* the last restart then, remainder computed, returned at
    ctor,           \* history: constructor used, its argument, its instant
    lastRestart,    \* history: instant of the last reset() or construction
    wasReset,       \* history: reset() has been called
    expiredAtReset, \* history: the timer was expired when reset() was called
    el,             \* history: the last two elapsed() results since the last
                    \* reset() or construction, -1 where there is none
    again,          \* history: whether the last reset() directly followed a
                    \* reset() with no time in between, and what it changed
    cloned,         \* timer.clone() has been called
    clone,          \* the clone, a Timer of its own: [instant, duration]
    ch              \* history of the clone: when it was made, the instant of
                    \* its last restart, whether reset() was called on it

vars == <<now, timer, pc, ret, w, ctor, lastRestart, wasReset, expiredAtReset, el, again,
          cloned, clone, ch>>

\* The original timer, the clock and their history.
vars1 == <<now, timer, pc, ret, w, ctor, lastRestart, wasReset, expiredAtReset, el, again>>

cloneVars == <<cloned, clone, ch>>

\* Option<Duration>
None == [some |-> FALSE, val |-> 0]
Some(d) == [some |-> TRUE, val |-> d]

\* Duration::checked_sub: None when the subtrahend is larger.
checked_sub_wrapping(a, b) == IF a >= b THEN Some(a - b) ELSE Some(b - a)
checked_sub(a, b) == IF a >= b THEN Some(a - b) ELSE None

\* Instant::elapsed: Instant::now() - instant, zero if the clock is behind.
Instant_elapsed_reversed(instant, t) == IF instant >= t THEN instant - t ELSE 0
Instant_elapsed(instant, t) == IF t >= instant THEN t - instant ELSE 0

\* Timer::new
Timer_new_one(t) == [instant |-> t, duration |-> 1]
Timer_new(t) == [instant |-> t, duration |-> 0]

\* Timer::with_duration
Timer_with_duration_dropped(d, t) == Timer_new(t)
Timer_with_duration(d, t) == [Timer_new(t) EXCEPT !.duration = d]

\* #[derive(Clone)]: a new Cell holding a copy of the instant, and the duration
Timer_clone(self) == [instant |-> self.instant, duration |-> self.duration]

\* Timer::reset
Timer_reset_noop(self, t) == self
Timer_reset_periodic(self, t) == [self EXCEPT !.instant = self.instant + self.duration]
Timer_reset_rebuild(self, t) == Timer_new(t)
Timer_reset(self, t) == [self EXCEPT !.instant = t]

\* Timer::expired
Timer_expired_exclusive(self, t) == Instant_elapsed(self.instant, t) > self.duration
Timer_expired_reversed(self, t) == Instant_elapsed(self.instant, t) <= self.duration
Timer_expired(self, t) == Instant_elapsed(self.instant, t) >= self.duration

\* Timer::duration
Timer_duration(self) == self.duration

\* Timer::elapsed
Timer_elapsed_remaining(self, t) ==
    IF self.duration >= Instant_elapsed(self.instant, t)
    THEN self.duration - Instant_elapsed(self.instant, t)
    ELSE 0
Timer_elapsed(self, t) == Instant_elapsed(self.instant, t)

\* The remainder wait() computes: duration.checked_sub(instant.elapsed())
Timer_remaining_full(self, t) == Some(self.duration)
Timer_remaining_sum(self, t) == Some(self.duration + Instant_elapsed(self.instant, t))
Timer_remaining(self, t) == checked_sub(self.duration, Instant_elapsed(self.instant, t))

\* std::thread::sleep(req) entered at start may return at t: never before
\* req has passed, possibly later.
sleep_done_early(start, req, t) == t - start + 1 >= req
sleep_done(start, req, t) == t - start >= req

\* Two timers agree in their fields and in what every query returns at t.
SameTimerState(a, b, t) ==
    /\ a.instant = b.instant
    /\ a.duration = b.duration
    /\ Timer_elapsed(a, t) = Timer_elapsed(b, t)
    /\ Timer_expired(a, t) = Timer_expired(b, t)
    /\ Timer_duration(a) = Timer_duration(b)

\* Before clone() there is no second timer.
NoTimer == [instant |-> 0, duration |-> 0]
NoClone == [at |-> 0, restart |-> 0, reset |-> FALSE]

NoElapsed == [prev |-> -1, cur |-> -1]

NoWait == [called |-> FALSE, at |-> 0, e |-> 0, rem |-> None, retAt |-> 0]

Init ==
    /\ now \in 0..MaxStart
    /\ \E c \in {"new", "with_duration"}, d \in Durations :
          /\ c = "new" => d = 0
          /\ ctor = [fn |-> c, arg |-> d, at |-> now]
          /\ timer = IF c = "new" THEN Timer_new(now) ELSE Timer_with_duration(d, now)
    /\ pc = "idle"
    /\ ret = [op |-> "construct", at |-> now, bool |-> FALSE, val |-> 0]
    /\ w = NoWait
    /\ lastRestart = now
    /\ wasReset = FALSE
    /\ expiredAtReset = FALSE
    /\ el = NoElapsed
    /\ again = "no"
    /\ cloned = FALSE
    /\ clone = NoTimer
    /\ ch = NoClone

\* The clock advances; it never runs backward.
Tick ==
    /\ now < MaxTime
    /\ now' = now + 1
    /\ UNCHANGED <<timer, pc, ret, w, ctor, lastRestart, wasReset, expiredAtReset, el, again, cloneVars>>

\* timer.reset()
Reset_shared ==
    /\ pc = "idle"
    /\ timer' = Timer_reset(timer, now)
    /\ ret' = [op |-> "reset", at |-> now, bool |-> FALSE, val |-> 0]
    /\ lastRestart' = now
    /\ wasReset' = TRUE
    /\ expiredAtReset' = (now - lastRestart >= ctor.arg)
    /\ el' = NoElapsed
    /\ again' = IF ret.op = "reset" /\ ret.at = now
                THEN IF SameTimerState(timer, Timer_reset(timer, now), now)
                     THEN "same" ELSE "changed"
                ELSE "no"
    /\ clone' = IF cloned THEN Timer_reset(clone, now) ELSE clone
    /\ UNCHANGED <<now, pc, w, ctor, cloned, ch>>

Reset ==
    /\ pc = "idle"
    /\ timer' = Timer_reset(timer, now)
    /\ ret' = [op |-> "reset", at |-> now, bool |-> FALSE, val |-> 0]
    /\ lastRestart' = now
    /\ wasReset' = TRUE
    /\ expiredAtReset' = (now - lastRestart >= ctor.arg)
    /\ el' = NoElapsed
    /\ again' = IF ret.op = "reset" /\ ret.at = now
                THEN IF SameTimerState(timer, Timer_reset(timer, now), now)
                     THEN "same" ELSE "changed"
                ELSE "no"
    /\ UNCHANGED <<now, pc, w, ctor, cloneVars>>

Expired ==
    /\ pc = "idle"
    /\ ret' = [op |-> "expired", at |-> now, bool |-> Timer_expired(timer, now), val |-> 0]
    /\ UNCHANGED <<now, timer, pc, w, ctor, lastRestart, wasReset, expiredAtReset, el, again, cloneVars>>

Elapsed ==
    /\ pc = "idle"
    /\ ret' = [op |-> "elapsed", at |-> now, bool |-> FALSE, val |-> Timer_elapsed(timer, now)]
    /\ el' = [prev |-> el.cur, cur |-> Timer_elapsed(timer, now)]
    /\ UNCHANGED <<now, timer, pc, w, ctor, lastRestart, wasReset, expiredAtReset, again, cloneVars>>

Duration ==
    /\ pc = "idle"
    /\ ret' = [op |-> "duration", at |-> now, bool |-> FALSE, val |-> Timer_duration(timer)]
    /\ UNCHANGED <<now, timer, pc, w, ctor, lastRestart, wasReset, expiredAtReset, el, again, cloneVars>>

\* wait() up to the point where the thread blocks in sleep, or to its return
\* when there is nothing to sleep (None, or a zero remainder).
WaitCall ==
    /\ pc = "idle"
    /\ LET e == now - lastRestart
           r == Timer_remaining(timer, now)
       IN  IF r.some /\ ~sleep_done(now, r.val, now)
           THEN /\ pc' = "sleeping"
                /\ w' = [called |-> TRUE, at |-> now, e |-> e, rem |-> r, retAt |-> now]
                /\ ret' = [op |-> "blocked", at |-> now, bool |-> FALSE, val |-> 0]
           ELSE /\ pc' = "idle"
                /\ w' = [called |-> TRUE, at |-> now, e |-> e, rem |-> r, retAt |-> now]
                /\ ret' = [op |-> "wait", at |-> now, bool |-> FALSE, val |-> 0]
    /\ UNCHANGED <<now, timer, ctor, lastRestart, wasReset, expiredAtReset, el, again, cloneVars>>

\* thread::sleep returns and wait() with it.
WaitReturn_restarting ==
    /\ pc = "sleeping"
    /\ sleep_done(w.at, w.rem.val, now)
    /\ pc' = "idle"
    /\ timer' = Timer_reset(timer, now)
    /\ w' = [w EXCEPT !.retAt = now]
    /\ ret' = [op |-> "wait", at |-> now, bool |-> FALSE, val |-> 0]
    /\ UNCHANGED <<now, ctor, lastRestart, wasReset, expiredAtReset, el, again, cloneVars>>
WaitReturn ==
    /\ pc = "sleeping"
    /\ sleep_done(w.at, w.rem.val, now)
    /\ pc' = "idle"
    /\ w' = [w EXCEPT !.retAt = now]
    /\ ret' = [op |-> "wait", at |-> now, bool |-> FALSE, val |-> 0]
    /\ UNCHANGED <<now, timer, ctor, lastRestart, wasReset, expiredAtReset, el, again, cloneVars>>

\* let other = timer.clone()
Clone ==
    /\ pc = "idle"
    /\ ~cloned
    /\ cloned' = TRUE
    /\ clone' = Timer_clone(timer)
    /\ ch' = [at |-> now, restart |-> lastRestart, reset |-> FALSE]
    /\ UNCHANGED vars1

\* other.reset(); the clone is a value of its own and may have been moved to
\* another thread, so this does not wait for the original's wait().
ResetClone ==
    /\ cloned
    /\ clone' = Timer_reset(clone, now)
    /\ ch' = [ch EXCEPT !.restart = now, !.reset = TRUE]
    /\ UNCHANGED <<cloned, vars1>>

Next ==
    \/ Tick
    \/ Reset
    \/ Expired
    \/ Elapsed
    \/ Duration
    \/ WaitCall
    \/ WaitReturn

Spec == Init /\ [][Next]_vars

\* The timer together with a clone of it: the steps that write a field of
\* either timer, the clock, and wait(), during which a clone held by another
\* thread can still be reset.  The queries write no field and are left to
\* Next; what they return for both timers is read off each state.
NextClone ==
    \/ Tick
    \/ Reset
    \/ WaitCall
    \/ WaitReturn
    \/ Clone
    \/ ResetClone

CloneSpec == Init /\ [][NextClone]_vars

\* The clock keeps advancing.
LiveSpec == Init /\ [][Next]_vars /\ WF_vars(Tick)

\* The clock keeps advancing and a sleep whose time has passed returns.
WaitLiveSpec == Init /\ [][Next]_vars /\ WF_vars(Tick) /\ WF_vars(WaitReturn)

TypeOK ==
    /\ now \in 0..MaxTime
    /\ timer.instant \in 0..MaxTime
    /\ timer.duration \in Durations
    /\ pc \in {"idle", "sleeping"}
    /\ wasReset \in BOOLEAN
    /\ expiredAtReset \in BOOLEAN

(***************************************************************************)
(* History-based readings used by the properties below.  They are computed *)
(* from the recorded constructor call and the recorded instant of the last *)
(* reset, not from the timer's own fields.                                 *)
(***************************************************************************)
\* Time since the last reset() (or construction), at clock reading t.
SinceRestart(t) == t - lastRestart

\* The duration the timer was configured with.
Configured == ctor.arg

\* C1: expired() returns true iff now - reference_point >= configured
\* duration; the boundary is inclusive: expired at elapsed = D, not expired
\* at every elapsed < D.
C1_ExpiredIffDurationReached ==
    /\ Timer_expired(timer, now) <=> (SinceRestart(now) >= Configured)
    /\ ret.op = "expired" => (ret.bool <=> (SinceRestart(ret.at) >= Configured))

C1_Witness ==
    /\ ret.op = "expired"
    /\ ret.bool
    /\ Configured > 0
    /\ SinceRestart(ret.at) = Configured

\* C2: elapsed() returns exactly now - reference_point, the reference point
\* being the instant of the most recent reset() or else of construction;
\* with a non-decreasing clock the value is never negative.
C2_ElapsedIsNowMinusReference ==
    /\ now >= lastRestart
    /\ Timer_elapsed(timer, now) = SinceRestart(now)
    /\ ret.op = "elapsed" => (ret.val = SinceRestart(ret.at) /\ ret.val >= 0)

C2_Witness ==
    /\ ret.op = "elapsed"
    /\ wasReset
    /\ lastRestart > ctor.at
    /\ ret.val > 0

\* C3: duration() returns the value passed to with_duration (zero for
\* Timer::new()) after any sequence of operations and passage of time; no
\* operation changes the configured duration.
C3_DurationIsConstructorArgument ==
    /\ Timer_duration(timer) = Configured
    /\ ctor.fn = "new" => Timer_duration(timer) = 0
    /\ ret.op = "duration" => ret.val = Configured

C3_Witness ==
    /\ ret.op = "duration"
    /\ ret.val > 0
    /\ wasReset
    /\ w.called
    /\ now > lastRestart

\* C4: right after reset(), before any time passes, elapsed() is zero and,
\* for D > 0, expired() is false, even if the timer was expired before the
\* reset; every later elapsed() is measured from that reset.
C4_ResetRestartsWindow ==
    wasReset =>
        /\ now = lastRestart =>
              /\ Timer_elapsed(timer, now) = 0
              /\ Configured > 0 => ~Timer_expired(timer, now)
        /\ (ret.op = "expired" /\ ret.at = lastRestart /\ Configured > 0) => ~ret.bool
        /\ ret.op = "elapsed" => ret.val = ret.at - lastRestart

C4_Witness ==
    /\ wasReset
    /\ expiredAtReset
    /\ ret.op = "expired"
    /\ ret.at = lastRestart
    /\ ~ret.bool

C6_WaitOnExpiredReturnsAtOnce ==
    (w.called /\ w.e >= Configured) =>
        /\ pc = "idle"
        /\ w.retAt = w.at
        /\ w.rem = IF w.e = Configured THEN Some(0) ELSE None

C6_Witness ==
    /\ w.called
    /\ Configured > 0
    /\ w.e > Configured
    /\ ret.op = "wait"
    /\ ret.at = w.at

\* C7: whenever wait() has returned and reset() has not been called since,
\* the timer is expired: elapsed >= configured duration.
C7_ExpiredWhenWaitReturns ==
    ret.op = "wait" =>
        /\ SinceRestart(ret.at) >= Configured
        /\ Timer_expired(timer, now)

C7_Witness ==
    /\ ret.op = "wait"
    /\ w.rem.some
    /\ w.rem.val > 0
    /\ w.e > 0

\* C8: for D > 0 a timer built by with_duration(D) is not expired at
\* construction; with the clock advancing and no reset() it eventually
\* becomes expired, and it is expired as soon as elapsed time reaches D.
C8_PendingThenExpiresAtDuration ==
    /\ [](( ~wasReset /\ ctor.fn = "with_duration" /\ Configured > 0) =>
            /\ now = ctor.at => ~Timer_expired(timer, now)
            /\ Timer_expired(timer, now) <=> (now - ctor.at >= Configured))
    /\ (( ~wasReset /\ ctor.fn = "with_duration" /\ Configured > 0)
            ~> (wasReset \/ Timer_expired(timer, now)))

C8_Witness ==
    /\ ~wasReset
    /\ ctor.fn = "with_duration"
    /\ Configured > 0
    /\ now - ctor.at = Configured
    /\ ret.op = "expired"
    /\ ret.at = now
    /\ ret.bool

\* C9: a timer of configured duration zero (Timer::new() or
\* with_duration(0)) reports expired() = true right after construction and
\* at every later moment until a reset().
C9_ZeroDurationBornExpired ==
    ((ctor.fn = "new" \/ Configured = 0) /\ ~wasReset) =>
        /\ Timer_expired(timer, now)
        /\ ret.op = "expired" => ret.bool

C9_Witness ==
    /\ ctor.fn = "new"
    /\ ~wasReset
    /\ now > ctor.at
    /\ ret.op = "expired"
    /\ ret.bool

\* C10: pending becomes expired only by the passage of time, never as the
\* effect of an operation; expired becomes pending only by reset(), so an
\* expired timer stays expired through expired(), elapsed(), duration(),
\* wait() and further passage of time.
C10_TransitionsOnlyByTimeAndReset ==
    [][ /\ (~Timer_expired(timer, now) /\ Timer_expired(timer', now')) =>
              (now' > now /\ timer' = timer /\ ret' = ret /\ pc' = pc)
        /\ (Timer_expired(timer, now) /\ ~Timer_expired(timer', now')) =>
              (ret'.op = "reset" /\ ret'.at = now /\ timer'.instant = now /\ now' = now)
      ]_vars

C10_Witness ==
    /\ expiredAtReset
    /\ Configured > 0
    /\ Timer_expired(timer, now)
    /\ lastRestart > ctor.at
    /\ ret.op = "elapsed"

\* C11: between two elapsed() calls on the same timer with no reset() in
\* between, the second result is greater than or equal to the first,
\* whatever expired(), duration(), wait() calls or passage of time occur in
\* between.
C11_ElapsedNonDecreasing ==
    el.prev # -1 => el.cur >= el.prev

C11_Witness ==
    /\ el.prev >= 0
    /\ el.cur > el.prev
    /\ ret.op = "elapsed"
    /\ w.called
    /\ w.rem.val > 0
    /\ w.at >= lastRestart + el.prev
    /\ w.retAt <= lastRestart + el.cur

\* C12: reset() is idempotent: a second reset() with no time passing after
\* the first leaves the timer in the same state (reference point, duration,
\* elapsed, expired) as the first alone.
C12_ResetIdempotent ==
    /\ again # "changed"
    /\ again = "same" => (timer.instant = lastRestart /\ timer.duration = Configured)

C12_Witness ==
    /\ again = "same"
    /\ Configured > 0
    /\ lastRestart > ctor.at
    /\ ret.op = "reset"
    /\ now = lastRestart

\* C13: the reference point is changed only by reset() (and set by
\* construction) and the configured duration by nothing: expired(),
\* elapsed(), duration() and wait() leave both fields unchanged, so wait()
\* does not reset the timer and an elapsed() after wait() is measured from
\* the reference point in place before the wait.
C13_OnlyResetMovesReference ==
    [][ /\ timer'.duration = timer.duration
        /\ timer'.instant # timer.instant =>
              /\ ret'.op = "reset"
              /\ ret'.at = now
              /\ now' = now
              /\ timer'.instant = now
              /\ lastRestart' = now
        /\ (ret'.op \in {"expired", "elapsed", "duration", "wait", "blocked"} /\ ret' # ret) =>
              timer' = timer
        /\ (ret'.op = "elapsed" /\ ret' # ret /\ w.called /\ w.at - w.e = lastRestart) =>
              ret'.val = now - (w.at - w.e)
      ]_vars

C13_Witness ==
    /\ ret.op = "elapsed"
    /\ w.called
    /\ w.rem.val > 0
    /\ w.retAt > w.at
    /\ ret.at >= w.retAt
    /\ w.at - w.e = lastRestart
    /\ timer.instant = lastRestart
    /\ ret.val = ret.at - (w.at - w.e)

\* The sleep of the wait() in progress ends within the modelled clock range.
WakeWithinRange == w.at + w.rem.val <= MaxTime

\* C14: every wait() terminates: it computes the remainder from one reading
\* of elapsed time, sleeps at most once, for that remainder (never more than
\* the configured duration), and returns when the sleep returns, without
\* re-reading the clock or sleeping again.
C14_WaitTerminatesAfterOneSleep ==
    /\ [](w.called =>
            /\ w.rem.val <= Configured
            /\ w.rem.some => w.rem.val = Configured - w.e
            /\ pc = "sleeping" => (w.rem.some /\ w.rem.val > 0))
    /\ [][ pc = "sleeping" =>
              /\ w'.at = w.at
              /\ w'.rem = w.rem
              /\ pc' = "idle" => (ret'.op = "wait" /\ now - w.at >= w.rem.val)
         ]_vars
    /\ ((pc = "sleeping" /\ WakeWithinRange) ~> (pc = "idle" /\ ret.op = "wait"))

C14_Witness ==
    /\ pc = "idle"
    /\ ret.op = "wait"
    /\ w.rem.some
    /\ w.rem.val > 0
    /\ w.e > 0
    /\ w.retAt > w.at + w.rem.val

\* C15: for a timer of configured duration zero expired() is true in every
\* reachable state, the state right after reset() included: such a timer is
\* never pending.
C15_ZeroDurationNeverPending ==
    Configured = 0 =>
        /\ Timer_expired(timer, now)
        /\ ret.op = "expired" => ret.bool

C15_Witness ==
    /\ Configured = 0
    /\ wasReset
    /\ ret.op = "expired"
    /\ ret.at = lastRestart
    /\ ret.bool

\* C16: a clone starts with the reference point and duration of the
\* original; afterwards reset() on either one moves only that instance's
\* reference point, and the other's elapsed(), expired() and duration() are
\* what they would be without it.
C16_ClonesIndependent ==
    /\ [](cloned =>
            /\ ~ch.reset => ch.restart <= ch.at
            /\ clone.instant = ch.restart
            /\ Timer_duration(clone) = Configured
            /\ Timer_elapsed(clone, now) = now - ch.restart
            /\ Timer_expired(clone, now) <=> (now - ch.restart >= Configured)
            /\ timer.instant = lastRestart
            /\ Timer_duration(timer) = Configured
            /\ Timer_elapsed(timer, now) = SinceRestart(now)
            /\ Timer_expired(timer, now) <=> (SinceRestart(now) >= Configured))
    /\ [][ /\ (~cloned /\ cloned') => clone' = timer
           /\ (cloned /\ timer' # timer) => clone' = clone
           /\ (cloned /\ clone' # clone) => timer' = timer
         ]_vars

C16_Witness ==
    /\ cloned
    /\ ch.reset
    /\ ch.restart > ch.at
    /\ lastRestart > ch.at
    /\ lastRestart # ch.restart
    /\ Configured > 0
    /\ Timer_expired(clone, now) # Timer_expired(timer, now)

====
